---- MODULE Spec2Model ----
(***************************************************************************)
(* Severity scoring engine of the gore scanner: scoring.py and utils.py.   *)
(*                                                                         *)
(* Strings are sequences of one-character strings.  Scores are fixed-point *)
(* numbers: the float 1.0 is the integer ONE, so 0.25 is ONE \div 4.       *)
(* Every float the model handles is a multiple of 1/ONE, except where a    *)
(* division is truncated to that grid (image score, colour channel).       *)
(* The tables of config.py are inputs: each specification draws them in    *)
(* its initial state and never changes them.                               *)
(***************************************************************************)
EXTENDS Integers, Sequences, FiniteSets, TLC

VARIABLES
    KEYWORD_WEIGHTS,                \* dict keyword -> weight, as its items() in insertion order
    FALSE_POSITIVE_EXCLUSIONS,      \* dict keyword -> list of exclusion substrings
    FICTION_FAKE_INDICATORS,        \* list of substrings
    REAL_CONTENT_WEIGHTS,           \* dict phrase -> bonus, as its items() in insertion order
    SEVERITY_COLOR_ANCHORS,         \* list of (value, hex string)
    SEVERITY_MIN,
    SEVERITY_MAX,
    IMAGE_RED_PERCENT_TO_SEVERITY,  \* in hundredths of a percent
    call,                           \* the function that was called
    pc,                             \* position of the running call
    text,                           \* score_text: argument
    text_lower,                     \* score_text: local
    items,                          \* score_text: the sorted keyword items being iterated
    i,                              \* score_text: index of the next item of the keyword loop
    total,                          \* score_text: local
    article,                        \* score_article: argument
    include_image,                  \* score_article: argument
    response,                       \* what the network and the decoder answer for the image URL
    fetches,                        \* number of HTTP GETs issued by the running call
    text_score,                     \* score_article: local
    img_score,                      \* score_article: local
    pixels,                         \* _blood_red_percentage: local, the decoded RGB pixels
    px,                             \* _blood_red_percentage: index of the next pixel of the loop
    count,                          \* _blood_red_percentage: local
    pct,                            \* _blood_red_percentage: the percentage it returns
    raw,                            \* score_image_from_url: local
    raised,                         \* the exception the running call let escape, or "none"
    score,                          \* clamp_severity_display / score_to_color: argument
    result                          \* what the running call returned (or raised)

config == <<KEYWORD_WEIGHTS, FALSE_POSITIVE_EXCLUSIONS, FICTION_FAKE_INDICATORS,
            REAL_CONTENT_WEIGHTS, SEVERITY_COLOR_ANCHORS, SEVERITY_MIN, SEVERITY_MAX,
            IMAGE_RED_PERCENT_TO_SEVERITY>>

textFrame == <<text, text_lower, items, i, total>>

articleFrame == <<article, include_image, response, fetches, text_score, img_score>>

imageFrame == <<pixels, px, count, pct, raw>>

vars == <<config, call, pc, textFrame, articleFrame, imageFrame, raised, score, result>>

----------------------------------------------------------------------------
(* Numbers *)

\* The float 1.0.
ONE == 100 * 100

\* n hundredths, e.g. Hundredths(25) is 0.25.
Hundredths(n) == n * (ONE \div 100)

Min(a, b) == IF b < a THEN b ELSE a

Max(a, b) == IF b > a THEN b ELSE a

\* No value yet.
None == {}

----------------------------------------------------------------------------
(* Strings *)

Str1(a) == <<a>>

Str2(a, b) == <<a, b>>

\* str.lower() on one character.
LowerChar(c) ==
    CASE c = "A" -> "a"
      [] c = "B" -> "b"
      [] OTHER -> c

\* str.lower()
lower(s) == [k \in 1..Len(s) |-> LowerChar(s[k])]

Whitespace == {" "}

\* str.strip(): drop leading and trailing whitespace.
RECURSIVE lstrip_ws(_)
lstrip_ws(s) ==
    IF s # <<>> /\ Head(s) \in Whitespace THEN lstrip_ws(Tail(s)) ELSE s

RECURSIVE rstrip_ws(_)
rstrip_ws(s) ==
    IF s # <<>> /\ s[Len(s)] \in Whitespace THEN rstrip_ws(SubSeq(s, 1, Len(s) - 1)) ELSE s

strip(s) == rstrip_ws(lstrip_ws(s))

\* `sub in s` for strings.
Contains(sub, s) ==
    \E k \in 0..(Len(s) - Len(sub)) : SubSeq(s, k + 1, k + Len(sub)) = sub

\* sorted(d.items(), key=lambda x: -x[1]): stable, descending by the number.
RECURSIVE InsertDesc(_, _)
InsertDesc(sorted, x) ==
    IF sorted = <<>> THEN <<x>>
    ELSE IF -x.n < -Head(sorted).n THEN <<x>> \o sorted
    ELSE <<Head(sorted)>> \o InsertDesc(Tail(sorted), x)

RECURSIVE SortedDesc(_)
SortedDesc(its) ==
    IF its = <<>> THEN <<>>
    ELSE InsertDesc(SortedDesc(SubSeq(its, 1, Len(its) - 1)), its[Len(its)])

----------------------------------------------------------------------------
(* scoring.py: score_text *)

\* _is_false_positive(text, keyword)
RECURSIVE AnyExclusionIn(_, _)
AnyExclusionIn(excls, tl) ==
    IF excls = <<>> THEN FALSE
    ELSE IF Contains(Head(excls), tl) THEN TRUE
    ELSE AnyExclusionIn(Tail(excls), tl)

\* _is_false_positive giving up after the first exclusion of the list.
is_false_positive_first_only(t, keyword) ==
    IF keyword \notin DOMAIN FALSE_POSITIVE_EXCLUSIONS THEN FALSE
    ELSE /\ FALSE_POSITIVE_EXCLUSIONS[keyword] # <<>>
         /\ Contains(Head(FALSE_POSITIVE_EXCLUSIONS[keyword]), lower(t))

is_false_positive(t, keyword) ==
    IF keyword \notin DOMAIN FALSE_POSITIVE_EXCLUSIONS THEN FALSE
    ELSE AnyExclusionIn(FALSE_POSITIVE_EXCLUSIONS[keyword], lower(t))

\* The condition of line 43.
KeywordCounts(keyword, tl) ==
    Contains(keyword, tl) /\ ~is_false_positive(tl, keyword)

\* The loop body leaving the loop instead of adding the weight that reaches the cap.
KeywordIterationBreakFirst(t, item, tl) ==
    IF KeywordCounts(item.s, tl)
    THEN IF t + item.n >= ONE
         THEN [total |-> t, break |-> TRUE]
         ELSE [total |-> t + item.n, break |-> FALSE]
    ELSE [total |-> t, break |-> FALSE]

\* The body of the loop of lines 42-46 for one item: the total after it, and
\* whether the loop breaks.
KeywordIteration(t, item, tl) ==
    IF KeywordCounts(item.s, tl)
    THEN [total |-> t + item.n, break |-> t + item.n >= ONE]
    ELSE [total |-> t, break |-> FALSE]

\* The loop of lines 42-46 over the items `its`, entered with total t.
RECURSIVE KeywordLoop(_, _, _)
KeywordLoop(its, t, tl) ==
    IF its = <<>> THEN t
    ELSE LET it == KeywordIteration(t, Head(its), tl)
         IN  IF it.break THEN it.total ELSE KeywordLoop(Tail(its), it.total, tl)

\* Line 47.
CapTotal(t) == Min(ONE, t)

\* total *= 0.25
Quarter(t) == (t * 25) \div 100

\* The penalty loop without its break: one quartering per indicator found.
RECURSIVE FictionPenaltyStacking(_, _, _)
FictionPenaltyStacking(t, indicators, tl) ==
    IF indicators = <<>> THEN t
    ELSE IF Contains(Head(indicators), tl)
         THEN FictionPenaltyStacking(Quarter(t), Tail(indicators), tl)
         ELSE FictionPenaltyStacking(t, Tail(indicators), tl)

\* Lines 50-53: the first indicator found in the text quarters the total, once.
RECURSIVE FictionPenalty(_, _, _)
FictionPenalty(t, indicators, tl) ==
    IF indicators = <<>> THEN t
    ELSE IF Contains(Head(indicators), tl) THEN Quarter(t)
    ELSE FictionPenalty(t, Tail(indicators), tl)

\* The bonus loop without its break: one bonus per phrase found.
RECURSIVE RealBonusLoopStacking(_, _, _)
RealBonusLoopStacking(t, phrases, tl) ==
    IF phrases = <<>> THEN t
    ELSE IF Contains(Head(phrases).s, tl)
         THEN RealBonusLoopStacking(Min(ONE, t + Head(phrases).n), Tail(phrases), tl)
         ELSE RealBonusLoopStacking(t, Tail(phrases), tl)

\* Lines 56-59: the first phrase found, in the sorted order, adds its bonus, once.
RECURSIVE RealBonusLoop(_, _, _)
RealBonusLoop(t, phrases, tl) ==
    IF phrases = <<>> THEN t
    ELSE IF Contains(Head(phrases).s, tl) THEN Min(ONE, t + Head(phrases).n)
    ELSE RealBonusLoop(t, Tail(phrases), tl)

RealBonus(t, tl) == RealBonusLoop(t, SortedDesc(REAL_CONTENT_WEIGHTS), tl)

\* The return of line 61 without its clamp.
FinalClampMissing(t) == t

\* Line 61.
FinalClamp(t) == Max(0, Min(ONE, t))

\* Line 37.
IsBlankText(t) == t = <<>> \/ strip(t) = <<>>

\* Lines 37-40 of score_text: the guard, and the loop's set-up.
ScoreTextEnter ==
    /\ pc = "score_text"
    /\ IF IsBlankText(text)
       THEN /\ result' = 0
            /\ pc' = "done"
            /\ UNCHANGED <<text_lower, items, i, total>>
       ELSE /\ text_lower' = lower(text)
            /\ total' = 0
            /\ items' = SortedDesc(KEYWORD_WEIGHTS)
            /\ i' = 1
            /\ pc' = "keywords"
            /\ UNCHANGED result
    /\ UNCHANGED <<config, call, text, articleFrame, imageFrame, raised, score>>

\* One iteration of the loop of lines 42-46.
KeywordIterate ==
    /\ pc = "keywords"
    /\ i <= Len(items)
    /\ LET it == KeywordIteration(total, items[i], text_lower)
       IN  /\ total' = it.total
           /\ IF it.break
              THEN pc' = "cap" /\ i' = i
              ELSE pc' = "keywords" /\ i' = i + 1
    /\ UNCHANGED <<config, call, text, text_lower, items, articleFrame, imageFrame, raised, score, result>>

\* The loop runs out of items.
KeywordsExhausted ==
    /\ pc = "keywords"
    /\ i > Len(items)
    /\ pc' = "cap"
    /\ UNCHANGED <<config, call, textFrame, articleFrame, imageFrame, raised, score, result>>

\* Line 47.
ScoreTextCap ==
    /\ pc = "cap"
    /\ total' = CapTotal(total)
    /\ pc' = "penalty"
    /\ UNCHANGED <<config, call, text, text_lower, items, i, articleFrame, imageFrame, raised, score, result>>

\* Lines 50-53.
ScoreTextPenalty ==
    /\ pc = "penalty"
    /\ total' = FictionPenalty(total, FICTION_FAKE_INDICATORS, text_lower)
    /\ pc' = "bonus"
    /\ UNCHANGED <<config, call, text, text_lower, items, i, articleFrame, imageFrame, raised, score, result>>

\* Lines 56-59.
ScoreTextBonus ==
    /\ pc = "bonus"
    /\ total' = RealBonus(total, text_lower)
    /\ pc' = "return"
    /\ UNCHANGED <<config, call, text, text_lower, items, i, articleFrame, imageFrame, raised, score, result>>

\* Line 61.
ScoreTextReturn ==
    /\ pc = "return"
    /\ result' = FinalClamp(total)
    /\ pc' = "done"
    /\ UNCHANGED <<config, call, textFrame, articleFrame, imageFrame, raised, score>>

\* score_text(text), as one value.
score_text(t) ==
    IF IsBlankText(t) THEN 0
    ELSE LET tl == lower(t)
             kw == CapTotal(KeywordLoop(SortedDesc(KEYWORD_WEIGHTS), 0, tl))
         IN  FinalClamp(RealBonus(FictionPenalty(kw, FICTION_FAKE_INDICATORS, tl), tl))

----------------------------------------------------------------------------
(* Inputs of score_text *)

MaxTextLen == 3

MaxKeywords == 2

Alphabet == {"a", "B", " "}

Strings(n) == UNION {[1..k -> Alphabet] : k \in 0..n}

Item(str, num) == [s |-> str, n |-> num]

KeywordNames == <<Str1("a"), Str1("b"), Str2("a", "b"), Str2("b", "a"), Str2("b", "b")>>

KeywordWeightValues == {Hundredths(30), Hundredths(60), Hundredths(70), Hundredths(100)}

\* The first k names, each with a weight in (0, 1].
KeywordTables ==
    UNION {{[j \in 1..k |-> Item(KeywordNames[j], w[j])] : w \in [1..k -> KeywordWeightValues]} :
           k \in 0..Min(MaxKeywords, Len(KeywordNames))}

EmptyDict == [k \in {} |-> <<>>]

ExclusionTables ==
    { EmptyDict,
      Str1("a") :> <<Str2("a", "b")>>,
      (Str1("a") :> <<Str2("a", "a"), Str2("a", "b")>>) @@ (Str1("b") :> <<Str2("b", "b")>>) }

IndicatorLists ==
    { <<>>, <<Str2("b", "b")>>, <<Str2("b", "a"), Str1("b")>> }

BonusTables ==
    { <<>>,
      <<Item(Str2("a", "b"), Hundredths(20))>>,
      <<Item(Str2("a", "b"), Hundredths(20)), Item(Str1("b"), Hundredths(50))>>,
      <<Item(Str1("b"), Hundredths(50)), Item(Str1("a"), Hundredths(50))>>,
      <<Item(Str1("a"), -Hundredths(30))>> }

\* Values of the variables a specification does not use.
IdleText ==
    /\ text = <<>>
    /\ text_lower = <<>>
    /\ items = <<>>
    /\ i = 0
    /\ total = 0

NoArticle == [title |-> None, description |-> None, urlToImage |-> None]

IdleArticle ==
    /\ article = NoArticle
    /\ include_image = FALSE
    /\ response = None
    /\ fetches = 0
    /\ text_score = 0
    /\ img_score = 0

IdleImage ==
    /\ pixels = <<>>
    /\ px = 0
    /\ count = 0
    /\ pct = 0
    /\ raw = 0

IdleDisplayConfig ==
    /\ SEVERITY_COLOR_ANCHORS = <<>>
    /\ SEVERITY_MIN = 0
    /\ SEVERITY_MAX = 0

InitText ==
    /\ KEYWORD_WEIGHTS \in KeywordTables
    /\ FALSE_POSITIVE_EXCLUSIONS \in ExclusionTables
    /\ FICTION_FAKE_INDICATORS \in IndicatorLists
    /\ REAL_CONTENT_WEIGHTS \in BonusTables
    /\ IdleDisplayConfig
    /\ IMAGE_RED_PERCENT_TO_SEVERITY = 0
    /\ text \in Strings(MaxTextLen)
    /\ text_lower = <<>>
    /\ items = <<>>
    /\ i = 0
    /\ total = 0
    /\ IdleArticle
    /\ IdleImage
    /\ raised = "none"
    /\ score = 0
    /\ result = None
    /\ call = "score_text"
    /\ pc = "score_text"

NextText ==
    \/ ScoreTextEnter
    \/ KeywordIterate
    \/ KeywordsExhausted
    \/ ScoreTextCap
    \/ ScoreTextPenalty
    \/ ScoreTextBonus
    \/ ScoreTextReturn

SpecText == InitText /\ [][NextText]_vars

----------------------------------------------------------------------------
(* Properties of score_text *)

\* The keyword has an exclusion substring in the lower-cased text.
Excluded(keyword, tl) ==
    /\ keyword \in DOMAIN FALSE_POSITIVE_EXCLUSIONS
    /\ \E k \in 1..Len(FALSE_POSITIVE_EXCLUSIONS[keyword]) :
          Contains(FALSE_POSITIVE_EXCLUSIONS[keyword][k], tl)

\* The sum of the weights of all the keywords that occur in tl and are not excluded.
RECURSIVE UnexcludedWeightSum(_, _)
UnexcludedWeightSum(its, tl) ==
    IF its = <<>> THEN 0
    ELSE (IF Contains(Head(its).s, tl) /\ ~Excluded(Head(its).s, tl) THEN Head(its).n ELSE 0)
         + UnexcludedWeightSum(Tail(its), tl)

\* The phrases of REAL_CONTENT_WEIGHTS that occur in tl.
MatchingPhrases(tl) ==
    {k \in 1..Len(REAL_CONTENT_WEIGHTS) : Contains(REAL_CONTENT_WEIGHTS[k].s, tl)}

LargestMatchingBonus(tl) ==
    CHOOSE b \in {REAL_CONTENT_WEIGHTS[k].n : k \in MatchingPhrases(tl)} :
        \A k \in MatchingPhrases(tl) : REAL_CONTENT_WEIGHTS[k].n <= b

MatchingIndicators(tl) ==
    {k \in 1..Len(FICTION_FAKE_INDICATORS) : Contains(FICTION_FAKE_INDICATORS[k], tl)}

\* C1: whatever the text and the lexicon, score_text returns a value in [0.0, 1.0].
ScoreTextInUnitRange ==
    pc = "done" => (result >= 0 /\ result <= ONE)

\* A call whose total was negative before the final clamp.
ScoreTextClampedWitness ==
    pc = "done" /\ ~IsBlankText(text) /\ total < 0 /\ result = 0

\* C4: in the keyword loop, a keyword that occurs in the text with one of its
\* exclusions also in the text leaves the total as it is and the loop goes on to the
\* next keyword; a keyword that occurs with no exclusion present adds exactly its weight.
ExcludedKeywordAddsNothing ==
    [][(pc = "keywords" /\ i <= Len(items)) =>
         LET keyword == items[i].s
             matched == Contains(keyword, text_lower)
             excluded == Excluded(keyword, text_lower)
         IN  /\ (matched /\ excluded) => (total' = total /\ i' = i + 1 /\ pc' = "keywords")
             /\ (matched /\ ~excluded) => total' = total + items[i].n]_vars

\* The loop has passed an excluded keyword, by its second exclusion, with the total
\* still zero, and stands at a keyword that counts.
ExcludedKeywordWitness ==
    /\ pc = "keywords"
    /\ i = 2
    /\ Len(items) = 2
    /\ Contains(items[1].s, text_lower)
    /\ Excluded(items[1].s, text_lower)
    /\ ~Contains(FALSE_POSITIVE_EXCLUSIONS[items[1].s][1], text_lower)
    /\ total = 0
    /\ Contains(items[2].s, text_lower)
    /\ ~Excluded(items[2].s, text_lower)

\* C5: the bonus step adds nothing when no phrase occurs in the text, and otherwise
\* adds one bonus, the largest among the phrases that occur, and the total after it is
\* at most 1.0.
BonusAppliedOnce ==
    [][pc = "bonus" =>
         /\ pc' = "return"
         /\ total' <= ONE
         /\ IF MatchingPhrases(text_lower) = {}
            THEN total' = total
            ELSE total' = Min(ONE, total + LargestMatchingBonus(text_lower))]_vars

\* Two phrases with different bonuses both occur, and the larger one was added.
BonusAppliedOnceWitness ==
    /\ pc = "return"
    /\ Cardinality(MatchingPhrases(text_lower)) = 2
    /\ REAL_CONTENT_WEIGHTS[1].n < REAL_CONTENT_WEIGHTS[2].n
    /\ total = REAL_CONTENT_WEIGHTS[2].n
    /\ total < ONE

\* C6: the penalty step runs on the capped keyword total and before the bonus; it
\* leaves the total as it is when no indicator occurs in the text, and multiplies it
\* by 0.25 once when one or several occur.
PenaltyAppliedOnce ==
    [][pc = "penalty" =>
         /\ pc' = "bonus"
         /\ total = Min(ONE, UnexcludedWeightSum(KEYWORD_WEIGHTS, text_lower))
         /\ IF MatchingIndicators(text_lower) = {}
            THEN total' = total
            ELSE 4 * total' = total]_vars

\* Two indicators occur in the text, the keyword weights summed to more than 1.0,
\* and the total after the penalty is 0.25.
PenaltyAppliedOnceWitness ==
    /\ pc = "bonus"
    /\ Cardinality(MatchingIndicators(text_lower)) = 2
    /\ UnexcludedWeightSum(KEYWORD_WEIGHTS, text_lower) > ONE
    /\ total = Hundredths(25)

\* C9: the capped keyword total is min(1.0, the sum of the weights of all the keywords
\* that occur and are not excluded), as a scan without the early exit gives.
EarlyExitKeepsTotal ==
    pc = "penalty" => total = Min(ONE, UnexcludedWeightSum(KEYWORD_WEIGHTS, text_lower))

\* The loop left early, before a keyword that counts, and the capped total is 1.0.
EarlyExitWitness ==
    /\ pc = "penalty"
    /\ i < Len(items)
    /\ KeywordCounts(items[Len(items)].s, text_lower)
    /\ total = ONE

----------------------------------------------------------------------------
(* utils.py: _blood_red_percentage, image_gore_score;                      *)
(* scoring.py: score_image_from_url                                        *)
(*                                                                         *)
(* A response is what the network and the decoder make of the URL:         *)
(* error is the exception requests.get raises ("none" when it returns),    *)
(* status the HTTP status, decodable whether PIL can open the body, and    *)
(* pixels the RGB pixels of the decoded image.  Percentages are in         *)
(* hundredths of a percent.                                                *)
(***************************************************************************)

\* n percent.
Percent(n) == n * 100

Response(e, st, dec, pxs) == [error |-> e, status |-> st, decodable |-> dec, pixels |-> pxs]

\* Line 50.
IsBrightRed(p) == p[1] > 140 /\ p[2] < 110 /\ p[3] < 110

\* Line 53.
IsDarkRed(p) == p[1] > 70 /\ p[2] < 55 /\ p[3] < 55 /\ p[1] > p[2] /\ p[1] > p[3]

\* The if / elif of lines 50-54 with the elif turned into a second if.
PixelIncrementBothBranches(p) ==
    (IF IsBrightRed(p) THEN 1 ELSE 0) + (IF IsDarkRed(p) THEN 1 ELSE 0)

\* Lines 50-54: what one pixel adds to count.
PixelIncrement(p) ==
    IF IsBrightRed(p) THEN 1
    ELSE IF IsDarkRed(p) THEN 1
    ELSE 0

\* Lines 48-54: the loop over the pixels.
RECURSIVE CountLoop(_, _)
CountLoop(pxs, c) ==
    IF pxs = <<>> THEN c ELSE CountLoop(Tail(pxs), c + PixelIncrement(Head(pxs)))

\* Line 55.
PercentageOf(c, n) == IF n > 0 THEN (c * Percent(100)) \div n ELSE 0

\* The try block without resp.raise_for_status().
TryRaisesNoStatusCheck(resp) ==
    IF resp.error # "none" THEN resp.error
    ELSE IF ~resp.decodable THEN "UnidentifiedImageError"
    ELSE "none"

\* Lines 41-45: the exception raised inside the try block, or "none".
TryRaises(resp) ==
    IF resp.error # "none" THEN resp.error
    ELSE IF resp.status >= 400 /\ resp.status < 600 THEN "HTTPError"
    ELSE IF ~resp.decodable THEN "UnidentifiedImageError"
    ELSE "none"

\* _blood_red_percentage(url): every exception of the try block is caught (lines 57-58).
blood_red_percentage(resp) ==
    IF TryRaises(resp) # "none"
    THEN [exc |-> "none", ok |-> FALSE, pct |-> 0]
    ELSE [exc |-> "none", ok |-> TRUE,
          pct |-> PercentageOf(CountLoop(resp.pixels, 0), Len(resp.pixels))]

\* Lines 27-28.
GoreScoreOf(p) ==
    LET cap == Max(1, IMAGE_RED_PERCENT_TO_SEVERITY)
    IN  Min(ONE, (p * ONE) \div cap)

\* image_gore_score(url), lines 25-30.
image_gore_score(resp) ==
    LET r == blood_red_percentage(resp)
    IN  IF r.exc # "none"
        THEN [exc |-> "none", value |-> 0]
        ELSE [exc |-> "none", value |-> GoreScoreOf(r.pct)]

\* Line 70.
ClampRaw(v) == Min(ONE, Max(0, v))

\* score_image_from_url(url), lines 69-70: no handler of its own.
score_image_from_url(resp) ==
    LET r == image_gore_score(resp)
    IN  IF r.exc # "none"
        THEN [exc |-> r.exc, value |-> 0]
        ELSE [exc |-> "none", value |-> ClampRaw(r.value)]

\* score_image_from_url calls image_gore_score, which calls _blood_red_percentage:
\* the try block up to the decoded pixels (lines 41-47), or the except clause.
BloodRedFetch ==
    /\ pc = "score_image_from_url"
    /\ fetches' = fetches + 1
    /\ IF TryRaises(response) # "none"
       THEN /\ pct' = 0
            /\ pc' = "image_gore_score"
            /\ UNCHANGED <<pixels, px, count>>
       ELSE /\ pixels' = response.pixels
            /\ count' = 0
            /\ px' = 1
            /\ pc' = "pixels"
            /\ UNCHANGED pct
    /\ UNCHANGED <<config, call, textFrame, article, include_image, response, text_score,
                   img_score, raw, raised, score, result>>

\* One iteration of the loop of lines 48-54.
BloodRedPixel ==
    /\ pc = "pixels"
    /\ px <= Len(pixels)
    /\ count' = count + PixelIncrement(pixels[px])
    /\ px' = px + 1
    /\ UNCHANGED <<config, call, pc, textFrame, articleFrame, pixels, pct, raw, raised, score, result>>

\* Lines 55-56.
BloodRedPercentage ==
    /\ pc = "pixels"
    /\ px > Len(pixels)
    /\ pct' = PercentageOf(count, Len(pixels))
    /\ pc' = "image_gore_score"
    /\ UNCHANGED <<config, call, textFrame, articleFrame, pixels, px, count, raw, raised, score, result>>

\* image_gore_score, lines 27-28.
ImageGoreScore ==
    /\ pc = "image_gore_score"
    /\ raw' = GoreScoreOf(pct)
    /\ pc' = "clamp_raw"
    /\ UNCHANGED <<config, call, textFrame, articleFrame, pixels, px, count, pct, raised, score, result>>

\* score_image_from_url, line 70.
ScoreImageReturn ==
    /\ pc = "clamp_raw"
    /\ result' = ClampRaw(raw)
    /\ pc' = "done"
    /\ UNCHANGED <<config, call, textFrame, articleFrame, imageFrame, raised, score>>

----------------------------------------------------------------------------
(* Inputs of score_image_from_url *)

MaxPixels == 2

\* Pixels on both sides of every threshold of the two predicates.
PixelValues ==
    { <<141, 109, 109>>, <<140, 109, 109>>, <<141, 110, 109>>, <<141, 109, 110>>,
      <<71, 54, 54>>, <<70, 54, 54>>, <<71, 55, 54>>, <<71, 54, 55>>,
      <<141, 54, 54>>, <<140, 54, 54>>, <<255, 0, 0>>, <<0, 0, 0>> }

Images(n) == UNION {[1..k -> PixelValues] : k \in 0..n}

Statuses == {200, 404}

Responses(images) ==
    {Response(e, 200, FALSE, <<>>) : e \in {"ConnectionError", "Timeout"}}
    \cup {Response("none", st, FALSE, <<>>) : st \in Statuses}
    \cup {Response("none", st, TRUE, im) : st \in Statuses, im \in images}

RedPercentValues == {0, Percent(25), Percent(50), Percent(100)}

IdleTextConfig ==
    /\ KEYWORD_WEIGHTS = <<>>
    /\ FALSE_POSITIVE_EXCLUSIONS = EmptyDict
    /\ FICTION_FAKE_INDICATORS = <<>>
    /\ REAL_CONTENT_WEIGHTS = <<>>

InitImage ==
    /\ IdleTextConfig
    /\ IdleDisplayConfig
    /\ IMAGE_RED_PERCENT_TO_SEVERITY \in RedPercentValues
    /\ IdleText
    /\ article = NoArticle
    /\ include_image = FALSE
    /\ response \in Responses(Images(MaxPixels))
    /\ fetches = 0
    /\ text_score = 0
    /\ img_score = 0
    /\ IdleImage
    /\ raised = "none"
    /\ score = 0
    /\ result = None
    /\ call = "score_image_from_url"
    /\ pc = "score_image_from_url"

NextImage ==
    \/ BloodRedFetch
    \/ BloodRedPixel
    \/ BloodRedPercentage
    \/ ImageGoreScore
    \/ ScoreImageReturn

SpecImage == InitImage /\ [][NextImage]_vars

----------------------------------------------------------------------------
(* Properties of the image score *)

\* Bright red: R > 140, G < 110, B < 110.
BrightRedAsStated(p) == p[1] >= 141 /\ p[2] <= 109 /\ p[3] <= 109

\* Dark red: R > 70, G < 55, B < 55, R > G, R > B.
DarkRedAsStated(p) == p[1] >= 71 /\ p[2] <= 54 /\ p[3] <= 54 /\ p[2] < p[1] /\ p[3] < p[1]

\* The positions of the pixels that are bright red or dark red.
BloodLike(pxs) == {k \in 1..Len(pxs) : BrightRedAsStated(pxs[k]) \/ DarkRedAsStated(pxs[k])}

Decoded(resp) ==
    resp.error = "none" /\ ~(resp.status >= 400 /\ resp.status < 600) /\ resp.decodable

\* C10: for a decoded image the score is min(1.0, percentage / max(0.01, reference)),
\* the percentage being 100 * (pixels that are bright red or dark red, each counted
\* once) / (all pixels), and 0 for an image of no pixels; an image of bright red pixels
\* only scores 1.0 under the reference 25, an image with no blood-like pixel scores 0.0.
ImageScoreIsCappedRatio ==
    (pc = "done" /\ Decoded(response)) =>
        LET n == Len(response.pixels)
            c == Cardinality(BloodLike(response.pixels))
            percentage == IF n = 0 THEN 0 ELSE (c * Percent(100)) \div n
            cap == IF IMAGE_RED_PERCENT_TO_SEVERITY < 1 THEN 1 ELSE IMAGE_RED_PERCENT_TO_SEVERITY
            ratio == (percentage * ONE) \div cap
        IN  /\ result = (IF ratio > ONE THEN ONE ELSE ratio)
            /\ (n > 0 /\ c = n /\ IMAGE_RED_PERCENT_TO_SEVERITY = Percent(25)) => result = ONE
            /\ c = 0 => result = 0

\* An image of one pixel that is both bright red and dark red and one pixel that is
\* neither, under the reference 100: it scores 0.5.
ImageScoreWitness ==
    /\ pc = "done"
    /\ Decoded(response)
    /\ Len(response.pixels) = 2
    /\ \E k \in 1..2 : BrightRedAsStated(response.pixels[k]) /\ DarkRedAsStated(response.pixels[k])
    /\ Cardinality(BloodLike(response.pixels)) = 1
    /\ IMAGE_RED_PERCENT_TO_SEVERITY = Percent(100)
    /\ result = Hundredths(50)

----------------------------------------------------------------------------
(* scoring.py: score_article                                               *)
(*                                                                         *)
(* An article is a dict; the value of a key is {} when the key is missing  *)
(* or None, and {v} otherwise.                                             *)
(***************************************************************************)

Some(v) == {v}

\* `x or ""`
OrEmpty(opt) == IF opt = None THEN <<>> ELSE CHOOSE v \in opt : TRUE

\* `not x` for an optional string.
Falsy(opt) == opt = None \/ opt = Some(<<>>)

\* The argument of score_text at line 80.
ArticleText(a) == OrEmpty(a.title) \o <<" ">> \o OrEmpty(a.description)

\* The two scores averaged.
CombineAverage(t, im) == (t + im) \div 2

\* Line 90.
Combine(t, im) == Max(t, im)

\* Lines 78-80.
ScoreArticleText ==
    /\ pc = "score_article"
    /\ text_score' = score_text(ArticleText(article))
    /\ pc' = "include_image"
    /\ UNCHANGED <<config, call, textFrame, article, include_image, response, fetches, img_score,
                   imageFrame, raised, score, result>>

\* Lines 82-83.
ScoreArticleTextOnly ==
    /\ pc = "include_image"
    /\ ~include_image
    /\ result' = text_score
    /\ pc' = "done"
    /\ UNCHANGED <<config, call, textFrame, articleFrame, imageFrame, raised, score>>

\* Lines 85-87.
ScoreArticleNoImageUrl ==
    /\ pc = "include_image"
    /\ include_image
    /\ Falsy(article.urlToImage)
    /\ result' = text_score
    /\ pc' = "done"
    /\ UNCHANGED <<config, call, textFrame, articleFrame, imageFrame, raised, score>>

\* Line 89: the call of score_image_from_url; an exception it lets escape ends
\* score_article.
ScoreArticleImage ==
    /\ pc = "include_image"
    /\ include_image
    /\ ~Falsy(article.urlToImage)
    /\ fetches' = fetches + 1
    /\ LET r == score_image_from_url(response)
       IN  IF r.exc # "none"
           THEN raised' = r.exc /\ pc' = "done" /\ UNCHANGED img_score
           ELSE img_score' = r.value /\ pc' = "combine" /\ UNCHANGED raised
    /\ UNCHANGED <<config, call, textFrame, article, include_image, response, text_score,
                   imageFrame, score, result>>

\* Line 90.
ScoreArticleCombine ==
    /\ pc = "combine"
    /\ result' = Combine(text_score, img_score)
    /\ pc' = "done"
    /\ UNCHANGED <<config, call, textFrame, articleFrame, imageFrame, raised, score>>

----------------------------------------------------------------------------
(* Inputs of score_article *)

ArticleKeywordTables ==
    { <<>>,
      <<Item(Str1("a"), Hundredths(30))>>,
      <<Item(Str1("a"), Hundredths(30)), Item(Str1("b"), Hundredths(40))>> }

Titles == {None, Some(<<>>), Some(Str1("a")), Some(Str2("a", "B"))}

Descriptions == {None, Some(<<>>), Some(Str1("B")), Some(Str1(" "))}

ImageUrls == {None, Some(<<>>), Some(Str1("u"))}

Articles == [title : Titles, description : Descriptions, urlToImage : ImageUrls]

\* A red pixel and a black one.
ArticlePixelValues == {<<255, 0, 0>>, <<0, 0, 0>>}

ArticleImages(n) == UNION {[1..k -> ArticlePixelValues] : k \in 0..n}

\* A call of score_article, or of score_image_from_url alone.
InitArticle ==
    /\ KEYWORD_WEIGHTS \in ArticleKeywordTables
    /\ FALSE_POSITIVE_EXCLUSIONS = EmptyDict
    /\ FICTION_FAKE_INDICATORS = <<>>
    /\ REAL_CONTENT_WEIGHTS = <<>>
    /\ IdleDisplayConfig
    /\ IMAGE_RED_PERCENT_TO_SEVERITY \in {Percent(50), Percent(100)}
    /\ IdleText
    /\ response \in Responses(ArticleImages(MaxPixels))
    /\ \/ /\ call = "score_article"
          /\ article \in Articles
          /\ include_image \in BOOLEAN
       \/ /\ call = "score_image_from_url"
          /\ article = NoArticle
          /\ include_image = FALSE
    /\ pc = call
    /\ fetches = 0
    /\ text_score = 0
    /\ img_score = 0
    /\ IdleImage
    /\ raised = "none"
    /\ score = 0
    /\ result = None

NextArticle ==
    \/ ScoreArticleText
    \/ ScoreArticleTextOnly
    \/ ScoreArticleNoImageUrl
    \/ ScoreArticleImage
    \/ ScoreArticleCombine
    \/ NextImage

SpecArticle == InitArticle /\ [][NextArticle]_vars

----------------------------------------------------------------------------
(* Properties of score_article *)

\* C2: score_article returns the text score of title + " " + description, and fetches
\* nothing, when include_image is false or the image URL is missing or empty; otherwise
\* it returns the larger of the text score and the image score.
ArticleScoreIsTextOrMax ==
    (pc = "done" /\ call = "score_article") =>
        LET t == score_text(ArticleText(article))
            im == score_image_from_url(response).value
        IN  IF ~include_image \/ article.urlToImage = None \/ article.urlToImage = Some(<<>>)
            THEN result = t /\ fetches = 0
            ELSE /\ fetches = 1
                 /\ result \in {t, im}
                 /\ result >= t
                 /\ result >= im

\* The image scores 0.5 and the text 0.3: score_article returns 0.5.
ArticleMaxWitness ==
    /\ pc = "done"
    /\ call = "score_article"
    /\ include_image
    /\ fetches = 1
    /\ text_score = Hundredths(30)
    /\ img_score = Hundredths(50)
    /\ result = Hundredths(50)

\* C3: when the fetch or the decoding fails (connection error, timeout, HTTP error
\* status, undecodable body), score_image_from_url returns 0.0 and lets no exception
\* escape, and score_article returns the text score.
ImageFailureScoresZero ==
    (pc = "done" /\ fetches > 0 /\ ~Decoded(response)) =>
        /\ raised = "none"
        /\ IF call = "score_image_from_url"
           THEN result = 0
           ELSE img_score = 0 /\ result = score_text(ArticleText(article))

\* score_article got a 404 whose body is a red image, and returned its text score 0.3.
ImageFailureWitness ==
    /\ pc = "done"
    /\ call = "score_article"
    /\ fetches = 1
    /\ response.status = 404
    /\ response.decodable
    /\ response.pixels = <<(<<255, 0, 0>>)>>
    /\ result = Hundredths(30)

----------------------------------------------------------------------------
(* scoring.py: clamp_severity_display                                      *)
(*                                                                         *)
(* Its argument may be any float, NaN included: a float is a record, nan   *)
(* telling whether it is NaN and v its value.  Every comparison with NaN   *)
(* is false, and Python's min and max keep their first argument unless the *)
(* second compares smaller (larger).                                       *)
(***************************************************************************)

Float(x) == [nan |-> FALSE, v |-> x]

NaN == [nan |-> TRUE, v |-> 0]

\* a < b on floats.
FloatLess(a, b) == ~a.nan /\ ~b.nan /\ a.v < b.v

\* min(a, b)
py_min(a, b) == IF FloatLess(b, a) THEN b ELSE a

\* max(a, b)
py_max(a, b) == IF FloatLess(a, b) THEN b ELSE a

\* round(x, 2): the nearest multiple of 0.01.  A decimal tie (x.xx5) goes where the
\* binary value of the float lies, up or down: both are results.
round2(x) ==
    IF x.nan THEN {x}
    ELSE IF x.v % Hundredths(1) = Hundredths(1) \div 2
         THEN {Float(x.v - Hundredths(1) \div 2), Float(x.v + Hundredths(1) \div 2)}
         ELSE {Float(((x.v + Hundredths(1) \div 2) \div Hundredths(1)) * Hundredths(1))}

\* Clamping first and rounding second.
clamp_then_round(x) ==
    round2(py_max(Float(SEVERITY_MIN), py_min(Float(SEVERITY_MAX), x)))

\* clamp_severity_display(score), line 95: the values it can return.
clamp_severity_display(x) ==
    {py_max(Float(SEVERITY_MIN), py_min(Float(SEVERITY_MAX), r)) : r \in round2(x)}

ClampSeverityDisplay ==
    /\ pc = "clamp_severity_display"
    /\ result' \in clamp_severity_display(score)
    /\ pc' = "done"
    /\ UNCHANGED <<config, call, textFrame, articleFrame, imageFrame, raised, score>>

----------------------------------------------------------------------------
(* Inputs of clamp_severity_display *)

\* Scores run from MaxOvershoot steps below 0.0 to MaxOvershoot steps above 1.0.
MaxOvershoot == 20

\* 0.005: every other step is a decimal tie of round(x, 2).
ScoreStep == ONE \div 200

DisplayScores ==
    {Float(k * ScoreStep) : k \in (-MaxOvershoot)..((ONE \div ScoreStep) + MaxOvershoot)}
    \cup {Float(-10 * ONE), Float(10 * ONE), NaN}

\* 0 < min <= max <= 1.0; scoring.py documents the display scale 0.1-1.0.
DisplayBounds ==
    {b \in {Hundredths(10), Hundredths(10) + ScoreStep, Hundredths(50)}
           \X {Hundredths(50), ONE} : b[1] <= b[2]}

InitDisplay ==
    /\ IdleTextConfig
    /\ SEVERITY_COLOR_ANCHORS = <<>>
    /\ \E b \in DisplayBounds : SEVERITY_MIN = b[1] /\ SEVERITY_MAX = b[2]
    /\ IMAGE_RED_PERCENT_TO_SEVERITY = 0
    /\ IdleText
    /\ IdleArticle
    /\ IdleImage
    /\ raised = "none"
    /\ score \in DisplayScores
    /\ result = None
    /\ call = "clamp_severity_display"
    /\ pc = call

NextDisplay == ClampSeverityDisplay

SpecDisplay == InitDisplay /\ [][NextDisplay]_vars

----------------------------------------------------------------------------
(* Properties of clamp_severity_display *)

\* C7: whatever the score, clamp_severity_display returns a value of
\* [SEVERITY_MIN, SEVERITY_MAX]: the score rounded to 2 decimals when that lies in
\* the range, and the bound it passes otherwise; 0.0 gives SEVERITY_MIN and 1.0
\* gives SEVERITY_MAX.
DisplayInRange ==
    pc = "done" =>
        /\ ~result.nan
        /\ SEVERITY_MIN <= result.v
        /\ result.v <= SEVERITY_MAX
        /\ score = Float(0) => result.v = SEVERITY_MIN
        /\ score = Float(ONE) => result.v = SEVERITY_MAX
        /\ result.v \notin {SEVERITY_MIN, SEVERITY_MAX} =>
              /\ result.v % Hundredths(1) = 0
              /\ result.v - score.v <= Hundredths(1) \div 2
              /\ score.v - result.v <= Hundredths(1) \div 2

\* The score 0.0 under a SEVERITY_MIN that is no multiple of 0.01: the result is
\* SEVERITY_MIN itself.
DisplayWitness ==
    /\ pc = "done"
    /\ score = Float(0)
    /\ SEVERITY_MIN % Hundredths(1) # 0
    /\ result = Float(SEVERITY_MIN)

----------------------------------------------------------------------------
(* scoring.py: score_to_color, _lerp_hex                                   *)
(*                                                                         *)
(* A colour is a string; the interpolation factor t is the fraction        *)
(* tn / td.                                                                *)
(***************************************************************************)

UpperHexDigits ==
    <<"0", "1", "2", "3", "4", "5", "6", "7", "8", "9", "A", "B", "C", "D", "E", "F">>

LowerHexDigits ==
    <<"0", "1", "2", "3", "4", "5", "6", "7", "8", "9", "a", "b", "c", "d", "e", "f">>

\* int(c, 16) for one digit, either case.
HexDigitValue(c) ==
    (CHOOSE k \in 1..16 : UpperHexDigits[k] = c \/ LowerHexDigits[k] = c) - 1

\* h.lstrip("#")
RECURSIVE lstrip_hash(_)
lstrip_hash(h) ==
    IF h # <<>> /\ Head(h) = "#" THEN lstrip_hash(Tail(h)) ELSE h

\* parse(h), lines 117-119: the three channels of a colour of six hex digits.
parse(h) ==
    LET d == lstrip_hash(h)
    IN  [c \in 1..3 |-> 16 * HexDigitValue(d[2 * c - 1]) + HexDigitValue(d[2 * c])]

\* f"{v:02X}"
FormatChannel(v) == <<UpperHexDigits[(v \div 16) + 1], UpperHexDigits[(v % 16) + 1]>>

\* int(a + (b - a) * t), lines 121-123; the value lies between a and b, so truncation
\* is the floor.
LerpChannel(a, b, tn, td) == (a * td + (b - a) * tn) \div td

\* _lerp_hex with its colours taken in the wrong order.
lerp_hex_swapped(hex_a, hex_b, tn, td) ==
    LET a == parse(hex_b)
        b == parse(hex_a)
    IN  <<"#">> \o FormatChannel(LerpChannel(a[1], b[1], tn, td))
               \o FormatChannel(LerpChannel(a[2], b[2], tn, td))
               \o FormatChannel(LerpChannel(a[3], b[3], tn, td))

\* _lerp_hex(hex_a, hex_b, t), lines 115-124.
lerp_hex(hex_a, hex_b, tn, td) ==
    LET a == parse(hex_a)
        b == parse(hex_b)
    IN  <<"#">> \o FormatChannel(LerpChannel(a[1], b[1], tn, td))
               \o FormatChannel(LerpChannel(a[2], b[2], tn, td))
               \o FormatChannel(LerpChannel(a[3], b[3], tn, td))

\* Lines 106-112: the loop over the adjacent pairs, from pair k on.
RECURSIVE AnchorLoop(_, _, _)
AnchorLoop(anchors, s, k) ==
    IF k > Len(anchors) - 1 THEN anchors[Len(anchors)].color
    ELSE LET a == anchors[k]
             b == anchors[k + 1]
         IN  IF a.value <= s /\ s <= b.value
             THEN IF b.value # a.value
                  THEN lerp_hex(a.color, b.color, s - a.value, b.value - a.value)
                  ELSE lerp_hex(a.color, b.color, 1, 1)
             ELSE AnchorLoop(anchors, s, k + 1)

\* score_to_color(score), lines 100-112.
score_to_color(x) ==
    LET s == Max(0, Min(ONE, x))
        anchors == SEVERITY_COLOR_ANCHORS
    IN  IF s <= anchors[1].value THEN anchors[1].color
        ELSE IF s >= anchors[Len(anchors)].value THEN anchors[Len(anchors)].color
        ELSE AnchorLoop(anchors, s, 1)

ScoreToColor ==
    /\ pc = "score_to_color"
    /\ result' = score_to_color(score)
    /\ pc' = "done"
    /\ UNCHANGED <<config, call, textFrame, articleFrame, imageFrame, raised, score>>

----------------------------------------------------------------------------
(* Inputs of score_to_color *)

MaxAnchors == 3

Anchor(v, c) == [value |-> v, color |-> c]

AnchorValues == {0, Hundredths(50), ONE, Hundredths(150)}

\* Colours #RRGGBB, in upper case and in lower case.
AnchorColors ==
    { <<"#", "F", "F", "0", "0", "0", "0">>,
      <<"#", "0", "0", "f", "f", "8", "0">>,
      <<"#", "0", "0", "0", "0", "F", "F">>,
      <<"#", "8", "0", "F", "F", "0", "0">> }

\* The non-empty lists of at most n anchors, ascending by value.
AnchorLists(n) ==
    UNION {{[k \in 1..len |-> Anchor(v[k], c[k])] :
               v \in {w \in [1..len -> AnchorValues] :
                         \A k \in 1..(len - 1) : w[k] <= w[k + 1]},
               c \in [1..len -> AnchorColors]} :
           len \in 1..n}

ColorScores ==
    {-Hundredths(50), 0, Hundredths(25), Hundredths(50), Hundredths(75), ONE,
     Hundredths(150), 2 * ONE}

InitColor ==
    /\ IdleTextConfig
    /\ SEVERITY_COLOR_ANCHORS \in AnchorLists(MaxAnchors)
    /\ SEVERITY_MIN = 0
    /\ SEVERITY_MAX = 0
    /\ IMAGE_RED_PERCENT_TO_SEVERITY = 0
    /\ IdleText
    /\ IdleArticle
    /\ IdleImage
    /\ raised = "none"
    /\ score \in ColorScores
    /\ result = None
    /\ call = "score_to_color"
    /\ pc = call

NextColor == ScoreToColor

SpecColor == InitColor /\ [][NextColor]_vars

----------------------------------------------------------------------------
(* Properties of score_to_color *)

\* The colour written as # and six upper-case hex digits.
UpperChar(c) ==
    IF \E k \in 1..16 : LowerHexDigits[k] = c
    THEN UpperHexDigits[CHOOSE k \in 1..16 : LowerHexDigits[k] = c]
    ELSE c

Canonical(color) ==
    LET d == SelectSeq(color, LAMBDA c : c # "#")
    IN  <<"#">> \o [k \in 1..Len(d) |-> UpperChar(d[k])]

StrictlyAscendingInUnitRange(anchors) ==
    /\ \A k \in 1..(Len(anchors) - 1) : anchors[k].value < anchors[k + 1].value
    /\ \A k \in 1..Len(anchors) : anchors[k].value >= 0 /\ anchors[k].value <= ONE

\* C8 as stated, for anchor values strictly ascending within [0, 1]: at each anchor's
\* value score_to_color returns that anchor's colour string unchanged, at or below the
\* first anchor's value the first colour, at or above the last anchor's value the last
\* colour.
AnchorColorUnchanged ==
    (pc = "done" /\ StrictlyAscendingInUnitRange(SEVERITY_COLOR_ANCHORS)) =>
        LET anchors == SEVERITY_COLOR_ANCHORS
        IN  /\ \A k \in 1..Len(anchors) : score = anchors[k].value => result = anchors[k].color
            /\ score <= anchors[1].value => result = anchors[1].color
            /\ score >= anchors[Len(anchors)].value => result = anchors[Len(anchors)].color

\* C8 amended: when the anchor values are strictly ascending and lie in [0, 1],
\* score_to_color returns the first anchor's colour string unchanged at or below its
\* value, the last anchor's unchanged at or above its value, and at an interior
\* anchor's value that anchor's colour written as # and six upper-case hex digits.
AnchorColorEndsUnchangedInteriorCanonical ==
    (pc = "done" /\ StrictlyAscendingInUnitRange(SEVERITY_COLOR_ANCHORS)) =>
        LET anchors == SEVERITY_COLOR_ANCHORS
        IN  /\ score <= anchors[1].value => result = anchors[1].color
            /\ score >= anchors[Len(anchors)].value => result = anchors[Len(anchors)].color
            /\ \A k \in 2..(Len(anchors) - 1) :
                  score = anchors[k].value => result = Canonical(anchors[k].color)

\* The score is the value of an interior anchor whose colour is written in lower case:
\* the result is that colour in upper case, another string.
InteriorAnchorWitness ==
    /\ pc = "done"
    /\ StrictlyAscendingInUnitRange(SEVERITY_COLOR_ANCHORS)
    /\ Len(SEVERITY_COLOR_ANCHORS) = 3
    /\ score = SEVERITY_COLOR_ANCHORS[2].value
    /\ result = Canonical(SEVERITY_COLOR_ANCHORS[2].color)
    /\ result # SEVERITY_COLOR_ANCHORS[2].color

====
